---------------------------- MODULE Spec2Model ----------------------------
(***************************************************************************)
(* Model of the search pipeline of the book catalog browser                *)
(* (src/DWA_6/src/main.js): the search form handler, the list update, the  *)
(* search dialog's listeners and the start-up wiring that registers them.  *)
(*                                                                         *)
(* Text is a sequence of one-character strings, so that trim(),            *)
(* toLowerCase() and includes() are computed and not assumed.              *)
(* The page is a set of present elements (dom); an element that is absent  *)
(* makes document.querySelector return null.  An event is one step: all    *)
(* its listeners run to completion, and an exception ends only the         *)
(* listener that raised it.  event.preventDefault(), window.scrollTo() and *)
(* searchTitle.focus() change nothing the handlers read; focus() is        *)
(* modelled by the exception it raises on a missing element.               *)
(***************************************************************************)
EXTENDS Integers, Sequences, FiniteSets, TLC

VARIABLES
    books,                \* the catalog (data.js), read-only
    dom,                  \* the elements present in the page
    listeners,            \* the listeners registered so far
    page,                 \* the page counter imported from bookList.js
    filters,              \* the fields of the search form
    resultSet,            \* the result set last established (spec section 3)
    listItems,            \* [data-list-items]: the rendered previews
    listButtonDisabled,   \* [data-list-button].disabled
    listButtonLabel,      \* [data-list-button].innerHTML
    listButtonDisplay,    \* [data-list-button].style.display
    listMessageDisplay,   \* [data-list-message].style.display
    searchOverlayOpen,    \* [data-search-overlay].open
    searchCancelDisabled, \* [data-search-cancel].disabled
    searchButtonDisabled, \* [data-search-button].disabled
    lastEvent,            \* the event whose listeners ran last
    uncaught,             \* exceptions the last event's listeners raised
    consoleErrors         \* what the handlers wrote to the console

vars == <<books, dom, listeners, page, filters, resultSet, listItems,
          listButtonDisabled, listButtonLabel, listButtonDisplay,
          listMessageDisplay, searchOverlayOpen, searchCancelDisabled,
          searchButtonDisabled, lastEvent, uncaught, consoleErrors>>

-----------------------------------------------------------------------------
(* Bounds of the model *)

\* longest catalog of the paging specification
MaxBooks == 5
\* longest catalog of the filter specification
MaxFilterBooks == 2
\* longest title query of the filter specification
MaxQueryLen == 2
\* largest page size the remaining count is computed for
MaxPageSize == 3
\* cap of the page counter
MaxPage == 3
\* books shown per page (imported from data.js, which sets the value)
BOOKS_PER_PAGE == 2

-----------------------------------------------------------------------------
(* Text *)

Char == {"A", "a", " "}

toLowerCase(s) == [i \in 1..Len(s) |-> IF s[i] = "A" THEN "a" ELSE s[i]]

IsWhiteSpace(c) == c = " "

RECURSIVE trimStart(_)
trimStart(s) ==
    IF s # <<>> /\ IsWhiteSpace(Head(s)) THEN trimStart(Tail(s)) ELSE s

RECURSIVE trimEnd(_)
trimEnd(s) ==
    IF s # <<>> /\ IsWhiteSpace(s[Len(s)])
    THEN trimEnd(SubSeq(s, 1, Len(s) - 1))
    ELSE s

trim(s) == trimEnd(trimStart(s))

\* String.prototype.includes: q occurs in s as a contiguous run
includes(s, q) ==
    \E i \in 0..(Len(s) - Len(q)) : SubSeq(s, i + 1, i + Len(q)) = q

\* Array.prototype.includes
arrayIncludes(arr, x) == \E i \in 1..Len(arr) : arr[i] = x

Digit == <<"0", "1", "2", "3", "4", "5", "6", "7", "8", "9">>

\* the decimal text of a number, as a template literal prints it
RECURSIVE numberToString(_)
numberToString(n) ==
    IF n < 0 THEN <<"-">> \o numberToString(-n)
    ELSE IF n < 10 THEN <<Digit[n + 1]>>
    ELSE numberToString(n \div 10) \o <<Digit[(n % 10) + 1]>>

-----------------------------------------------------------------------------
(* Data *)

\* the author table of data.js: id -> display name
authors == [a1 |-> "Author One", a2 |-> "Author Two"]

\* authors[authorId] inside a template literal
authorText(authorId) ==
    IF authorId \in DOMAIN authors THEN authors[authorId] ELSE "undefined"

Elements == {"searchForm", "searchCancel", "searchOverlay", "searchButton",
             "searchTitle", "headerSearch", "listItems", "listButton",
             "listMessage"}

NoListeners == [submit |-> FALSE, cancel |-> FALSE, toggle |-> <<>>,
                header |-> 0, loadMore |-> FALSE]

\* the form's fields before anything is typed or chosen
DefaultFilters == [title |-> <<>>, author |-> "any", genre |-> "any"]

\* what a field of the form data reads as when the form did not carry it
Undefined == "undefined"

field(f, name) == IF name \in DOMAIN f THEN f[name] ELSE Undefined

\* the catalog made of the given attribute records, ids in catalog order
Catalog(attrs) ==
    [i \in 1..Len(attrs) |->
        [id |-> i, image |-> i, title |-> attrs[i].title,
         author |-> attrs[i].author, genres |-> attrs[i].genres]]

RECURSIVE SeqsUpTo(_, _)
SeqsUpTo(S, n) ==
    IF n = 0 THEN {<<>>}
    ELSE LET shorter == SeqsUpTo(S, n - 1)
         IN  shorter \cup {Append(q, x) : q \in shorter, x \in S}

-----------------------------------------------------------------------------
(* handleSearchFormSubmit: the filter loop *)

titleMatch(book, f) ==
    \/ trim(f.title) = <<>>
    \/ includes(toLowerCase(book.title), toLowerCase(f.title))

authorMatch(book, f) ==
    LET authorId == field(f, "author")
    IN  authorId = "any" \/ book.author = authorId

genreMatch(book, f) ==
    LET genre == field(f, "genre")
    IN  genre = "any" \/ arrayIncludes(book.genres, genre)

bookMatches_AnyOf(book, f) ==
    titleMatch(book, f) \/ authorMatch(book, f) \/ genreMatch(book, f)

bookMatches(book, f) ==
    titleMatch(book, f) /\ authorMatch(book, f) /\ genreMatch(book, f)

\* for (const book of books) { ... results.push(book) }, from book i on
RECURSIVE filterLoop(_, _, _)
filterLoop(i, f, results) ==
    IF i > Len(books) THEN results
    ELSE filterLoop(i + 1, f,
                    IF bookMatches(books[i], f)
                    THEN Append(results, books[i])
                    ELSE results)

\* filters.title.trim() on a form without a title field raises a TypeError
\* in the first iteration of the loop
filterThrows(f) == "title" \notin DOMAIN f /\ Len(books) > 0

-----------------------------------------------------------------------------
(* updateBookList *)

remainingBooks(results) == Len(results) - (page * BOOKS_PER_PAGE)

hasRemaining_OrEqual(results) == remainingBooks(results) >= 0

hasRemaining(results) == remainingBooks(results) > 0

remainingAt_Unclamped(length, pageIndex, pageSize) ==
    length - (pageIndex * pageSize)

\* lines 185-187 as a function of the length, the page and the page size
remainingAt(length, pageIndex, pageSize) ==
    LET left == length - (pageIndex * pageSize)
    IN  IF left > 0 THEN left ELSE 0

remainingOf(results) == remainingAt(Len(results), page, BOOKS_PER_PAGE)

\* the button's two spans
buttonLabel(remaining) ==
    [text |-> "Show more",
     remaining |-> <<"(">> \o numberToString(remaining) \o <<")">>]

\* the preview element built for one book
preview(book) ==
    [preview |-> book.id, image |-> book.image, title |-> book.title,
     author |-> authorText(book.author)]

\* the fragment: one preview per book of results, in order
fragment(results) == [i \in 1..Len(results) |-> preview(results[i])]

messageDisplay_Inverted(results) == IF Len(results) = 0 THEN "none" ELSE "block"

messageDisplay(results) == IF Len(results) = 0 THEN "block" ELSE "none"

buttonDisplay(results) == IF Len(results) > 0 THEN "block" ELSE "none"

replaceChildren_NoClear(results) == listItems \o fragment(results)

\* dataListItems.innerHTML = ''; dataListItems.appendChild(fragment)
replaceChildren(results) == fragment(results)

\* dataListItems.innerHTML = '' on a missing container raises a TypeError
updateThrows == "listItems" \notin dom

\* The state updateBookList(results) leaves, and whether it raised.
updateBookList(results) ==
    LET hasButton  == "listButton" \in dom
        hasMessage == "listMessage" \in dom
        hasOverlay == "searchOverlay" \in dom
    IN  [listButtonDisabled |->
            IF hasButton THEN ~hasRemaining(results) ELSE listButtonDisabled,
         listButtonLabel |->
            IF hasButton THEN buttonLabel(remainingOf(results))
            ELSE listButtonLabel,
         listItems |->
            IF updateThrows THEN listItems ELSE replaceChildren(results),
         listMessageDisplay |->
            IF ~updateThrows /\ hasMessage THEN messageDisplay(results)
            ELSE listMessageDisplay,
         listButtonDisplay |->
            IF ~updateThrows /\ hasButton /\ hasMessage
            THEN buttonDisplay(results)
            ELSE listButtonDisplay,
         searchOverlayOpen |->
            IF ~updateThrows /\ hasOverlay THEN FALSE ELSE searchOverlayOpen,
         thrown |-> updateThrows]

-----------------------------------------------------------------------------
(* The submit event of the search form *)

enablesButtons_Negated == "searchCancel" \in dom /\ "searchButton" \notin dom

\* lines 159-168: both buttons are enabled when both exist
enablesButtons == "searchCancel" \in dom /\ "searchButton" \in dom

handleSearchFormSubmit(f) ==
    /\ listeners.submit
    /\ lastEvent' = "submit"
    /\ filters' = f
    /\ IF filterThrows(f)
       THEN /\ uncaught' = 1
            /\ UNCHANGED <<resultSet, listItems, listButtonDisabled,
                           listButtonLabel, listButtonDisplay,
                           listMessageDisplay, searchOverlayOpen,
                           searchCancelDisabled, searchButtonDisabled>>
       ELSE LET results == filterLoop(1, f, <<>>)
                u == updateBookList(results)
            IN  /\ resultSet' = results
                /\ listItems' = u.listItems
                /\ listButtonDisabled' = u.listButtonDisabled
                /\ listButtonLabel' = u.listButtonLabel
                /\ listButtonDisplay' = u.listButtonDisplay
                /\ listMessageDisplay' = u.listMessageDisplay
                /\ searchOverlayOpen' = u.searchOverlayOpen
                /\ uncaught' = IF u.thrown THEN 1 ELSE 0
                /\ searchCancelDisabled' =
                      IF ~u.thrown /\ enablesButtons THEN FALSE
                      ELSE searchCancelDisabled
                /\ searchButtonDisabled' =
                      IF ~u.thrown /\ enablesButtons THEN FALSE
                      ELSE searchButtonDisabled
    /\ UNCHANGED <<consoleErrors, books, dom, listeners, page>>

SubmitEvent(inputs) == \E f \in inputs : handleSearchFormSubmit(f)

-----------------------------------------------------------------------------
(* Start-up: the DOMContentLoaded listeners, in registration order *)

\* initializeSearchOverlay: addEventListener on a missing [data-header-search]
\* raises a TypeError
initializeSearchOverlayThrows == "headerSearch" \notin dom

\* The listeners the DOMContentLoaded listeners of main.js leave registered.
\* submit and cancel are registered again with the same named function, which
\* addEventListener ignores; each toggle and header-search listener is a new
\* anonymous function.
registered ==
    [submit   |-> "searchForm" \in dom,
     cancel   |-> "searchCancel" \in dom,
     toggle   |-> (IF "searchCancel" \in dom /\ "searchOverlay" \in dom
                   THEN <<"main">> ELSE <<>>)
                  \o (IF "searchOverlay" \in dom THEN <<"search">> ELSE <<>>),
     header   |-> IF initializeSearchOverlayThrows THEN 0 ELSE 2,
     loadMore |-> "listButton" \in dom]

DOMContentLoaded ==
    /\ lastEvent = "load"
    /\ lastEvent' = "DOMContentLoaded"
    /\ listeners' = registered
    \* initializeSearchOverlay is called by two of the listeners
    /\ uncaught' = IF initializeSearchOverlayThrows THEN 2 ELSE 0
    /\ UNCHANGED <<consoleErrors, books, dom, page, filters, resultSet, listItems,
                   listButtonDisabled, listButtonLabel, listButtonDisplay,
                   listMessageDisplay, searchOverlayOpen,
                   searchCancelDisabled, searchButtonDisabled>>

-----------------------------------------------------------------------------
(* The search dialog *)

openSearchOverlay_Closes(s) == [s EXCEPT !.open = FALSE]

openSearchOverlay_Toggles(s) == [s EXCEPT !.open = ~@]

\* The click listener of [data-header-search], run on s = [open, thrown].
openSearchOverlay(s) ==
    IF "searchOverlay" \notin dom
    THEN [s EXCEPT !.thrown = @ + 1]
    ELSE IF "searchTitle" \notin dom
    THEN [s EXCEPT !.open = TRUE, !.thrown = @ + 1]
    ELSE [s EXCEPT !.open = TRUE]

RECURSIVE runTimes(_, _)
runTimes(n, s) == IF n = 0 THEN s ELSE runTimes(n - 1, openSearchOverlay(s))

HeaderSearchClick ==
    /\ listeners.header > 0
    /\ LET s == runTimes(listeners.header,
                         [open |-> searchOverlayOpen, thrown |-> 0])
       IN  /\ searchOverlayOpen' = s.open
           /\ uncaught' = s.thrown
    /\ lastEvent' = "headerSearchClick"
    /\ UNCHANGED <<consoleErrors, books, dom, listeners, page, filters, resultSet, listItems,
                   listButtonDisabled, listButtonLabel, listButtonDisplay,
                   listMessageDisplay, searchCancelDisabled,
                   searchButtonDisabled>>

toggleListener_Unguarded(which, disabled) == FALSE

toggleListener_DisablesWhenClosed(which, disabled) == ~searchOverlayOpen

\* One toggle listener: both enable the cancel button when the dialog is open
\* (the first holds the button it was registered with, the second looks the
\* button up and skips a missing one).
toggleListener(which, disabled) ==
    IF searchOverlayOpen = TRUE
    THEN IF which = "main" THEN FALSE
         ELSE IF "searchCancel" \in dom THEN FALSE ELSE disabled
    ELSE disabled

RECURSIVE runToggle(_, _)
runToggle(ls, disabled) ==
    IF ls = <<>> THEN disabled
    ELSE runToggle(Tail(ls), toggleListener(Head(ls), disabled))

ToggleEvent ==
    /\ listeners.toggle # <<>>
    /\ searchCancelDisabled' = runToggle(listeners.toggle, searchCancelDisabled)
    /\ lastEvent' = "toggle"
    /\ uncaught' = 0
    /\ UNCHANGED <<consoleErrors, books, dom, listeners, page, filters, resultSet, listItems,
                   listButtonDisabled, listButtonLabel, listButtonDisplay,
                   listMessageDisplay, searchOverlayOpen,
                   searchButtonDisabled>>

handleSearchCancelButtonClick_Toggles ==
    /\ listeners.cancel
    /\ searchOverlayOpen' = ~searchOverlayOpen
    /\ uncaught' = 0
    /\ lastEvent' = "cancelClick"
    /\ UNCHANGED <<consoleErrors, books, dom, listeners, page, filters,
                   resultSet, listItems, listButtonDisabled, listButtonLabel,
                   listButtonDisplay, listMessageDisplay,
                   searchCancelDisabled, searchButtonDisabled>>

\* reading .open of a missing [data-search-overlay] raises a TypeError
cancelThrows == "searchOverlay" \notin dom

handleSearchCancelButtonClick ==
    /\ listeners.cancel
    /\ searchOverlayOpen' =
          IF ~cancelThrows /\ searchOverlayOpen = TRUE THEN FALSE
          ELSE searchOverlayOpen
    /\ uncaught' = IF cancelThrows THEN 1 ELSE 0
    /\ lastEvent' = "cancelClick"
    /\ UNCHANGED <<consoleErrors, books, dom, listeners, page, filters, resultSet, listItems,
                   listButtonDisabled, listButtonLabel, listButtonDisplay,
                   listMessageDisplay, searchCancelDisabled,
                   searchButtonDisabled>>

-----------------------------------------------------------------------------
(* Load more (bookList.js, described in spec section 4.2) *)

\* the slice a page reveals: resultSet[(p-1)*pageSize .. p*pageSize)
pageSlice(results, p) ==
    SubSeq(results, (p - 1) * BOOKS_PER_PAGE + 1,
           IF p * BOOKS_PER_PAGE < Len(results) THEN p * BOOKS_PER_PAGE
           ELSE Len(results))

LoadMoreClick ==
    /\ listeners.loadMore
    /\ ~listButtonDisabled
    /\ page < MaxPage
    /\ page' = page + 1
    /\ listItems' = IF "listItems" \in dom
                    THEN listItems \o fragment(pageSlice(resultSet, page + 1))
                    ELSE listItems
    /\ LET left == Len(resultSet) - (page + 1) * BOOKS_PER_PAGE
           remaining == IF left > 0 THEN left ELSE 0
       IN  /\ listButtonDisabled' = (remaining = 0)
           /\ listButtonLabel' = buttonLabel(remaining)
    /\ lastEvent' = "loadMore"
    /\ uncaught' = 0
    /\ UNCHANGED <<consoleErrors, books, dom, listeners, filters, resultSet,
                   listButtonDisplay, listMessageDisplay, searchOverlayOpen,
                   searchCancelDisabled, searchButtonDisabled>>

-----------------------------------------------------------------------------
(* Inputs *)

\* the books the catalogs of the paging specification are made of
PagingBooks ==
    {[title |-> <<"A">>, author |-> "a1", genres |-> <<"g1", "g2">>],
     [title |-> <<" ">>, author |-> "a2", genres |-> <<"g2">>]}

\* the books the catalogs of the filter specification are made of
FilterBooks ==
    {[title |-> <<"A">>, author |-> "a1", genres |-> <<"g1", "g2">>],
     [title |-> <<"A">>, author |-> "a2", genres |-> <<"g2">>],
     [title |-> <<"a", " ">>, author |-> "a1", genres |-> <<"g2">>],
     [title |-> <<"a", " ">>, author |-> "a2", genres |-> <<"g1", "g2">>]}

Queries(n) == SeqsUpTo(Char, n)

\* the submissions of the paging specification
SearchInputs ==
    {[title |-> <<>>, author |-> "any", genre |-> "any"],
     [title |-> <<"a">>, author |-> "any", genre |-> "any"],
     [title |-> <<>>, author |-> "a2", genre |-> "any"],
     [title |-> <<>>, author |-> "a9999", genre |-> "any"],
     [title |-> <<>>, author |-> "any", genre |-> "g1"]}

\* the forms of the filter specification
FilterInputs ==
    [title : Queries(MaxQueryLen), author : {"any", "a1", "a9999"},
     genre : {"any", "g1"}]

-----------------------------------------------------------------------------
(* Specifications *)

\* The page as the scripts find it: the first page of the catalog rendered,
\* the dialog closed with its buttons disabled (spec sections 3 and 4.2), no
\* listener registered yet.
Loaded(catalog, elements, form) ==
    /\ books = catalog
    /\ dom = elements
    /\ listeners = NoListeners
    /\ page = 1
    /\ filters = form
    /\ resultSet = catalog
    /\ listItems = IF "listItems" \in elements
                   THEN fragment(pageSlice(catalog, 1)) ELSE <<>>
    /\ listButtonDisabled = ~(Len(catalog) > BOOKS_PER_PAGE)
    /\ listButtonLabel =
          buttonLabel(IF Len(catalog) > BOOKS_PER_PAGE
                      THEN Len(catalog) - BOOKS_PER_PAGE ELSE 0)
    /\ listButtonDisplay = ""
    /\ listMessageDisplay = ""
    /\ searchOverlayOpen = FALSE
    /\ searchCancelDisabled = TRUE
    /\ searchButtonDisabled = TRUE
    /\ lastEvent = "load"
    /\ uncaught = 0
    /\ consoleErrors = <<>>

\* the complete page, any catalog of up to MaxBooks books
Init ==
    \E attrs \in SeqsUpTo(PagingBooks, MaxBooks) :
        Loaded(Catalog(attrs), Elements, DefaultFilters)

Next ==
    \/ DOMContentLoaded
    \/ HeaderSearchClick
    \/ ToggleEvent
    \/ handleSearchCancelButtonClick
    \/ SubmitEvent(SearchInputs)
    \/ LoadMoreClick

Spec == Init /\ [][Next]_vars

\* The filter alone: the complete page, richer catalogs, and a form already
\* filled in, which the submit event hands to the handler as it stands.
InitFilter ==
    \E attrs \in SeqsUpTo(FilterBooks, MaxFilterBooks), form \in FilterInputs :
        Loaded(Catalog(attrs), Elements, form)

SubmitForm == handleSearchFormSubmit(filters)

NextFilter ==
    \/ DOMContentLoaded
    \/ SubmitForm

SpecFilter == InitFilter /\ [][NextFilter]_vars

\* Partial page layouts: any set of elements present, one catalog.
PartialCatalog ==
    Catalog(<<[title |-> <<"A">>, author |-> "a1", genres |-> <<"g1", "g2">>],
              [title |-> <<" ">>, author |-> "a2", genres |-> <<"g2">>],
              [title |-> <<"A">>, author |-> "a1", genres |-> <<"g1", "g2">>]>>)

InitPartial ==
    \E elements \in SUBSET Elements :
        Loaded(PartialCatalog, elements, DefaultFilters)

SpecPartial == InitPartial /\ [][Next]_vars

\* Unexpected data: forms that lack fields, and a book whose author id is
\* not in the author table.
IntegrityBooks ==
    {[title |-> <<"A">>, author |-> "a1", genres |-> <<"g1", "g2">>],
     [title |-> <<"A">>, author |-> "a3", genres |-> <<"g2">>]}

\* Object.fromEntries(formData): only the fields the form carried
fromEntries(f, names) == [k \in names |-> f[k]]

MalformedInputs ==
    {fromEntries(f, names) :
        f \in [title : {<<>>, <<"a">>}, author : {"any", "a1"},
               genre : {"any", "g1"}],
        names \in SUBSET {"title", "author", "genre"}}

InitMalformed ==
    \E attrs \in SeqsUpTo(IntegrityBooks, MaxFilterBooks),
       form \in MalformedInputs :
        Loaded(Catalog(attrs), Elements, form)

SpecMalformed == InitMalformed /\ [][NextFilter]_vars

-----------------------------------------------------------------------------
(* Claims *)

Min(a, b) == IF a < b THEN a ELSE b

\* the books of the catalog that satisfy pred, in catalog order
Selected(pred(_)) == SelectSeq(books, pred)

AuthorOk(b) == filters.author = "any" \/ b.author = filters.author

GenreOk(b) ==
    filters.genre = "any" \/ filters.genre \in {b.genres[i] : i \in DOMAIN b.genres}

AllThree(b) == titleMatch(b, filters) /\ AuthorOk(b) /\ GenreOk(b)

\* C1: after a submission the result list (and the rendered list built from
\* it) is exactly the subsequence of the catalog, in catalog order, of the
\* books that satisfy the title, author and genre predicates at once; with
\* title '', author 'any', genre 'any' it is the whole catalog.
C1_ResultIsConjunctiveFilter ==
    lastEvent = "submit" =>
        /\ resultSet = Selected(AllThree)
        /\ listItems = fragment(Selected(AllThree))
        /\ (filters = DefaultFilters => resultSet = books)

C1_Witness ==
    /\ lastEvent = "submit"
    /\ trim(filters.title) # <<>>
    /\ filters.author # "any"
    /\ filters.genre # "any"
    /\ Len(books) = 2
    /\ Len(resultSet) = 1
    /\ resultSet[1] = books[2]

TrimmedTitleOk(b) ==
    \/ trim(filters.title) = <<>>
    \/ includes(toLowerCase(b.title), toLowerCase(trim(filters.title)))

TrimmedAllThree(b) == TrimmedTitleOk(b) /\ AuthorOk(b) /\ GenreOk(b)

\* C2: the title predicate of a search uses the trimmed query: a query that
\* is empty after trimming matches every book, otherwise a book matches iff
\* the trimmed query is a case-insensitive substring of its title.
C2_TitleUsesTrimmedQuery ==
    lastEvent = "submit" => resultSet = Selected(TrimmedAllThree)

\* C3: right after any search submission the page counter is 1, whatever
\* number of load-more actions came before.
C3_PageResetOnSubmit == lastEvent = "submit" => page = 1

\* C4: after a search submission the rendered list is exactly the first
\* page * BOOKS_PER_PAGE entries of the result set, in result order.
C4_FirstPagesRendered ==
    lastEvent = "submit" =>
        listItems =
            fragment(SubSeq(resultSet, 1,
                            Min(page * BOOKS_PER_PAGE, Len(resultSet))))

\* C5: after updateBookList(results) the show-more button is disabled iff
\* remaining = 0, with remaining = max(0, results.length - page *
\* BOOKS_PER_PAGE); its label embeds that count as '(remaining)'; and the
\* button is hidden whenever results is empty.
C5_ShowMoreButton ==
    lastEvent = "submit" =>
        LET left == Len(resultSet) - page * BOOKS_PER_PAGE
            remaining == IF left > 0 THEN left ELSE 0
        IN  /\ listButtonDisabled <=> (remaining = 0)
            /\ listButtonLabel.remaining = <<"(", Digit[remaining + 1], ")">>
            /\ Len(resultSet) = 0 => listButtonDisplay = "none"

C5_Witness ==
    /\ lastEvent = "submit"
    /\ BOOKS_PER_PAGE = 2
    /\ Len(resultSet) = 5
    /\ page = 1
    /\ ~listButtonDisabled
    /\ listButtonLabel.remaining = <<"(", "3", ")">>
    /\ listButtonDisplay = "block"

NoBookBy(authorId) == \A i \in DOMAIN books : books[i].author # authorId

\* C6: after every search submission the empty-state message is shown iff
\* the result set is empty and hidden otherwise; an empty catalog, or an
\* author id that no book has, gives an empty result set with the message
\* shown and the show-more button hidden.
C6_EmptyStateMessage ==
    lastEvent = "submit" =>
        /\ (listMessageDisplay = "block") <=> (Len(resultSet) = 0)
        /\ (listMessageDisplay = "none") <=> (Len(resultSet) > 0)
        /\ (books = <<>> \/ (filters.author # "any" /\ NoBookBy(filters.author)))
              => /\ resultSet = <<>>
                 /\ listMessageDisplay = "block"
                 /\ listButtonDisplay = "none"

C6_Witness ==
    /\ lastEvent = "submit"
    /\ books # <<>>
    /\ filters.author = "a9999"
    /\ resultSet = <<>>
    /\ listItems = <<>>
    /\ listMessageDisplay = "block"
    /\ listButtonDisplay = "none"

\* C7: in the state right after a search submission the search dialog is
\* closed and both the cancel and the submit button are enabled.
C7_AfterSubmitClosedAndEnabled ==
    lastEvent = "submit" =>
        /\ searchOverlayOpen = FALSE
        /\ searchCancelDisabled = FALSE
        /\ searchButtonDisabled = FALSE

C7_Witness ==
    /\ lastEvent = "submit"
    /\ uncaught = 0
    /\ ~searchOverlayOpen
    /\ ~searchCancelDisabled
    /\ ~searchButtonDisabled

\* C8 as claimed: in every reachable state the cancel and submit buttons are
\* interactive only while the search dialog is open.
C8_InteractiveOnlyWhileOpen ==
    (~searchCancelDisabled \/ ~searchButtonDisabled) => searchOverlayOpen

\* C8 as amended: a button of the search dialog becomes interactive only by
\* a toggle event that finds the dialog open (the cancel button) or by a
\* search submission (both buttons); closing the dialog does not disable it.
C8_EnabledOnlyByToggleOrSubmit ==
    [][/\ (searchCancelDisabled /\ ~searchCancelDisabled')
            => \/ lastEvent' = "toggle" /\ searchOverlayOpen
               \/ lastEvent' = "submit"
       /\ (searchButtonDisabled /\ ~searchButtonDisabled')
            => lastEvent' = "submit"
       /\ (~searchCancelDisabled /\ searchOverlayOpen /\ ~searchOverlayOpen')
            => ~searchCancelDisabled']_vars

\* the cancel button enabled by a toggle, still enabled after the dialog closed
C8_Witness ==
    /\ lastEvent = "cancelClick"
    /\ ~searchOverlayOpen
    /\ ~searchCancelDisabled
    /\ searchButtonDisabled

\* C9: a header-search click opens the dialog and the toggle event that
\* finds it open enables the cancel button; a cancel click closes it; and a
\* submission made afterwards runs to completion: it filters, renders the
\* result and leaves the dialog closed.
C9_OpenCancelSubmit ==
    /\ lastEvent = "headerSearchClick" => searchOverlayOpen
    /\ (lastEvent = "toggle" /\ searchOverlayOpen) => ~searchCancelDisabled
    /\ lastEvent = "cancelClick" => ~searchOverlayOpen
    /\ lastEvent = "submit" =>
          /\ uncaught = 0
          /\ resultSet = Selected(AllThree)
          /\ listItems = fragment(resultSet)
          /\ ~searchOverlayOpen

\* the dialog open after a click and its toggle event, the cancel button on
C9_Witness ==
    /\ lastEvent = "toggle"
    /\ searchOverlayOpen
    /\ ~searchCancelDisabled
    /\ searchButtonDisabled

uiVars == <<listItems, listButtonDisabled, listButtonLabel, listButtonDisplay,
            listMessageDisplay, searchOverlayOpen, searchCancelDisabled,
            searchButtonDisabled>>

\* C10: with a required mounting point absent the operation is a no-op: it
\* raises no exception and leaves the UI state unchanged.
C10_MissingMountIsNoOp ==
    [][/\ (lastEvent' = "submit" /\ "listItems" \notin dom)
            => (uncaught' = 0 /\ UNCHANGED uiVars)
       /\ (lastEvent' = "cancelClick" /\ "searchOverlay" \notin dom)
            => (uncaught' = 0 /\ UNCHANGED uiVars)
       /\ (lastEvent' = "DOMContentLoaded" /\ "headerSearch" \notin dom)
            => (uncaught' = 0 /\ UNCHANGED uiVars)
       /\ (lastEvent' = "headerSearchClick"
             /\ ("searchOverlay" \notin dom \/ "searchTitle" \notin dom))
            => (uncaught' = 0 /\ UNCHANGED uiVars)]_vars

\* a field the form lacks matches every book
PermissiveTitleOk(b) ==
    "title" \notin DOMAIN filters \/ titleMatch(b, filters)

PermissiveAuthorOk(b) ==
    \/ "author" \notin DOMAIN filters
    \/ filters.author = "any"
    \/ b.author = filters.author

PermissiveGenreOk(b) ==
    \/ "genre" \notin DOMAIN filters
    \/ filters.genre = "any"
    \/ filters.genre \in {b.genres[i] : i \in DOMAIN b.genres}

PermissiveAllThree(b) ==
    PermissiveTitleOk(b) /\ PermissiveAuthorOk(b) /\ PermissiveGenreOk(b)

\* C11: a submission whose form lacks the title, author or genre field does
\* not fail; the missing field matches every book, so the result set is the
\* one the remaining fields select.
C11_MissingFieldMatchesAll ==
    lastEvent = "submit" =>
        /\ uncaught = 0
        /\ resultSet = Selected(PermissiveAllThree)
        /\ listItems = fragment(Selected(PermissiveAllThree))

UnknownAuthor(b) == b.author \notin DOMAIN authors

\* C12: when a book of the result set has an author id that the author
\* table lacks, rendering reports the error on the console, and every book
\* of the result set is still rendered.
C12_UnknownAuthorReported ==
    (/\ lastEvent = "submit"
     /\ uncaught = 0
     /\ \E i \in DOMAIN resultSet : UnknownAuthor(resultSet[i]))
        => /\ consoleErrors # <<>>
           /\ Len(listItems) = Len(resultSet)
           /\ \A i \in DOMAIN resultSet : listItems[i].preview = resultSet[i].id

NoDuplicates(items) ==
    \A i, j \in DOMAIN items : i # j => items[i].preview # items[j].preview

\* C13: submitting the form again with the same criteria renders the same
\* preview list (same books, same order, same count), with no duplicated or
\* left-over preview.
C13_ResubmitRendersSameList ==
    (lastEvent = "submit" /\ uncaught = 0) =>
        LET again == updateBookList(filterLoop(1, filters, <<>>))
        IN  /\ ~filterThrows(filters)
            /\ again.listItems = listItems
            /\ Len(again.listItems) = Len(resultSet)
            /\ NoDuplicates(again.listItems)

C13_Witness ==
    /\ lastEvent = "submit"
    /\ uncaught = 0
    /\ filters # DefaultFilters
    /\ Len(listItems) = 2
    /\ Len(books) > 2

\* C14: for every result length L >= 0 and page size P > 0 the remaining
\* count is never negative, does not increase as the page index increases,
\* and is 0 for every page index with pageIndex * P >= L.
C14_RemainingClampedAndMonotone ==
    /\ \A P \in 1..MaxPageSize, p \in 0..MaxPage :
          LET L == Len(resultSet)
          IN  /\ remainingAt(L, p, P) >= 0
              /\ remainingAt(L, p + 1, P) <= remainingAt(L, p, P)
              /\ (p * P >= L) => remainingAt(L, p, P) = 0
              /\ (p * P < L) => remainingAt(L, p, P) = L - p * P
    /\ (lastEvent = "submit" /\ page * BOOKS_PER_PAGE >= Len(resultSet))
          => listButtonLabel.remaining = <<"(", "0", ")">>

\* a result set shorter than the pages already shown: the count is clamped
C14_Witness ==
    /\ lastEvent = "submit"
    /\ Len(resultSet) > 0
    /\ page * BOOKS_PER_PAGE > Len(resultSet)
    /\ listButtonLabel.remaining = <<"(", "0", ")">>
    /\ listButtonDisabled

\* C15: no handler disables the search cancel or the search submit button:
\* once enabled, each stays enabled through every later event.
C15_NeverDisabledAgain ==
    [][/\ ~searchCancelDisabled => ~searchCancelDisabled'
       /\ ~searchButtonDisabled => ~searchButtonDisabled']_vars

\* a toggle event that finds the dialog closed and both buttons enabled
C15_Witness ==
    /\ lastEvent = "toggle"
    /\ ~searchOverlayOpen
    /\ ~searchCancelDisabled
    /\ ~searchButtonDisabled

\* C16: a cancel click changes nothing but the overlay's open flag, and
\* changes nothing at all when the overlay is already closed.
C16_CancelOnlyCloses ==
    [][lastEvent' = "cancelClick" =>
          /\ UNCHANGED <<listItems, listButtonDisabled, listButtonLabel,
                         listButtonDisplay, listMessageDisplay, page,
                         searchCancelDisabled, searchButtonDisabled,
                         filters, resultSet, books, listeners, consoleErrors>>
          /\ ~searchOverlayOpen'
          /\ uncaught' = 0]_vars

\* a cancel click on the open dialog, the rendered list left as it was
C16_Witness ==
    /\ lastEvent = "cancelClick"
    /\ ~searchOverlayOpen
    /\ Len(listItems) > 0
    /\ page > 1

\* C17: start-up leaves two toggle listeners and two header-search click
\* listeners (and one submit and one cancel listener); an event runs each of
\* them, and the state it leaves is the state one run of the handler leaves.
C17_DoubleListenersIdempotent ==
    [][/\ lastEvent' = "DOMContentLoaded" =>
             /\ listeners'.header = 2
             /\ listeners'.toggle = <<"main", "search">>
             /\ listeners'.submit /\ listeners'.cancel
       /\ lastEvent' = "headerSearchClick" =>
             /\ listeners.header = 2
             /\ searchOverlayOpen' =
                   openSearchOverlay([open |-> searchOverlayOpen,
                                      thrown |-> 0]).open
             /\ UNCHANGED <<searchCancelDisabled, searchButtonDisabled>>
       /\ lastEvent' = "toggle" =>
             /\ Len(listeners.toggle) = 2
             /\ searchCancelDisabled' =
                   toggleListener("main", searchCancelDisabled)
             /\ searchCancelDisabled' =
                   toggleListener("search", searchCancelDisabled)
             /\ UNCHANGED <<searchOverlayOpen, searchButtonDisabled>>]_vars

C17_Witness ==
    /\ lastEvent = "headerSearchClick"
    /\ listeners.header = 2
    /\ Len(listeners.toggle) = 2
    /\ searchOverlayOpen
    /\ uncaught = 0

=============================================================================
